---------------------------- MODULE Spec2Model ----------------------------
(***************************************************************************)
(* unifile: cleaning of file and directory names (clean_filename) and the  *)
(* tree rewrite that applies it (process_directory, process_path), after   *)
(* src/build/lib/unifile/unifile.py.                                       *)
(*                                                                         *)
(* A name is a sequence of Unicode code points.  A path is a sequence of   *)
(* names below the root the run was started on; the root itself is <<>>.   *)
(***************************************************************************)
EXTENDS Integers, Sequences, FiniteSets, TLC

VARIABLES
    fs,         \* the tree: path -> [kind, id]; id is the path the entry had at the start
    fs0,        \* the tree as it was when the run started
    mode,       \* "preserve" | "ascii"
    dry_run,    \* BOOLEAN
    pc,         \* process_directory: "called", "walk", "done", "raised";
                \* process_path: "pcalled", "rglob", "pdone", "praised";
                \* a clean_filename call: "clean"
    stack,      \* the frames of os.walk, or of rglob, innermost last
    log,        \* the log records emitted so far
    processed,  \* ids of the entries the loops of process_directory have handled
    last,       \* what the last step did: [op, kind, old, new, name]
    cname,      \* clean_filename call: its argument
    cres,       \* clean_filename call: results of the successive applications
    directory,  \* what the argument `directory` of process_directory is
    exc,        \* the exception that left the call, "none" when none did
    runs,       \* the runs of process_directory completed before this one
    ctype       \* clean_filename call: the type of its argument

vars ==
    <<fs, fs0, mode, dry_run, pc, stack, log, processed, last, cname, cres,
      directory, exc, runs, ctype>>

-----------------------------------------------------------------------------
(* Bounds of the model *)

\* longest name given to clean_filename in CleanSpec
MaxNameLen == 4
\* most entries below the root in an initial tree over TreeNames
MaxEntries == 3
\* most entries below the root in an initial tree over CoreNames
MaxCoreEntries == 4
\* most entries below the root in an initial tree over PairNames
MaxPairEntries == 7
\* deepest entry below the root in an initial tree
MaxDepth == 3
\* most runs of process_directory that follow the first on the same tree
MaxReruns == 1

-----------------------------------------------------------------------------
(* Characters *)

\* ord(c) < 32: a control character
ControlLimit == 32
\* ord(c) < 128: an ASCII character
AsciiLimit == 128
\* '.', the extension separator of os.path.splitext
Dot == 46
\* '-', which precedes the collision counter
Dash == 45
\* '0', the first decimal digit
Zero == 48

\* 'filewithNull'
Token == <<102, 105, 108, 101, 119, 105, 116, 104, 78, 117, 108, 108>>

\* UMLAUT_MAP, in the order of the dict
UMLAUT_MAP ==
    << [c |-> 228,  r |-> <<97, 101>>],  [c |-> 196,  r |-> <<65, 101>>],
       [c |-> 246,  r |-> <<111, 101>>], [c |-> 214,  r |-> <<79, 101>>],
       [c |-> 252,  r |-> <<117, 101>>], [c |-> 220,  r |-> <<85, 101>>],
       [c |-> 223,  r |-> <<115, 115>>], [c |-> 7838, r |-> <<83, 115>>] >>

\* unicodedata.normalize('NFKD', c) of one character (the characters the model uses)
Decomp(c) ==
    CASE c = 224 -> <<97, 768>>    [] c = 225 -> <<97, 769>>
      [] c = 228 -> <<97, 776>>    [] c = 196 -> <<65, 776>>
      [] c = 232 -> <<101, 768>>   [] c = 233 -> <<101, 769>>
      [] c = 241 -> <<110, 771>>
      [] c = 246 -> <<111, 776>>   [] c = 214 -> <<79, 776>>
      [] c = 252 -> <<117, 776>>   [] c = 220 -> <<85, 776>>
      [] OTHER -> <<c>>

\* unicodedata.combining(c) != 0
Combining(c) == c \in {768, 769, 771, 776}

-----------------------------------------------------------------------------
(* clean_filename *)

IsControl(c) == c < ControlLimit

HasControl(s) == \E i \in 1..Len(s) : IsControl(s[i])

\* a variant that takes parts[0], what precedes the first control character
FirstPart(s) ==
    LET ctl == {i \in 1..Len(s) : IsControl(s[i])}
        k == IF ctl = {} THEN Len(s) + 1 ELSE CHOOSE i \in ctl : \A j \in ctl : i <= j
    IN  SubSeq(s, 1, k - 1)

\* re.split(r'[\x00-\x1f]+', s)[-1]: what follows the last control character
LastPart(s) ==
    LET ctl == {i \in 1..Len(s) : IsControl(s[i])}
        k == IF ctl = {} THEN 0 ELSE CHOOSE i \in ctl : \A j \in ctl : j <= i
    IN  SubSeq(s, k + 1, Len(s))

\* a variant that finds no extension
SplitExtNone(s) == <<s, <<>> >>

\* os.path.splitext(s) for a name without separator: <<root, ext>>.  The extension
\* starts at the last dot, unless only dots precede it.
SplitExt(s) ==
    LET dots == {i \in 1..Len(s) : s[i] = Dot}
        d == IF dots = {} THEN 0 ELSE CHOOSE i \in dots : \A j \in dots : j <= i
    IN  IF d > 0 /\ \E i \in 1..(d - 1) : s[i] # Dot
        THEN <<SubSeq(s, 1, d - 1), SubSeq(s, d, Len(s))>>
        ELSE <<s, <<>> >>

\* a variant that replaces the first run of control characters only, and keeps
\* what follows it
CollapseFirstRun(s) ==
    LET ctl == {i \in 1..Len(s) : IsControl(s[i])}
        i == CHOOSE k \in ctl : \A j \in ctl : k <= j
        j == CHOOSE k \in i..Len(s) :
                /\ \A l \in i..k : IsControl(s[l])
                /\ k = Len(s) \/ ~IsControl(s[k + 1])
    IN  SubSeq(s, 1, i - 1) \o Token \o SubSeq(s, j + 1, Len(s))

\* 'filewithNull' + os.path.splitext(parts[-1])[1] if parts[-1] else ''
CollapseControl(s) ==
    IF LastPart(s) # <<>> THEN Token \o SplitExt(LastPart(s))[2] ELSE <<>>

\* s.replace(c, r) for a single character c
RECURSIVE Replace(_, _, _)
Replace(s, c, r) ==
    IF s = <<>> THEN <<>>
    ELSE (IF Head(s) = c THEN r ELSE <<Head(s)>>) \o Replace(Tail(s), c, r)

\* for umlaut, replacement in UMLAUT_MAP.items(): s = s.replace(umlaut, replacement)
RECURSIVE ReplaceUmlauts(_, _)
ReplaceUmlauts(s, i) ==
    IF i > Len(UMLAUT_MAP) THEN s
    ELSE ReplaceUmlauts(Replace(s, UMLAUT_MAP[i].c, UMLAUT_MAP[i].r), i + 1)

\* unicodedata.normalize('NFKD', s)
RECURSIVE Nfkd(_)
Nfkd(s) == IF s = <<>> THEN <<>> ELSE Decomp(Head(s)) \o Nfkd(Tail(s))

NotCombining(c) == ~Combining(c)

\* a variant that keeps every character
IsAnyChar(c) == TRUE

IsAscii(c) == c < AsciiLimit

\* a variant that decomposes before it applies UMLAUT_MAP
ToAsciiDecomposeFirst(s) ==
    SelectSeq(SelectSeq(ReplaceUmlauts(Nfkd(s), 1), NotCombining), IsAscii)

\* the ascii branch of clean_filename
ToAscii(s) ==
    SelectSeq(SelectSeq(Nfkd(ReplaceUmlauts(s, 1)), NotCombining), IsAscii)

Modes == {"preserve", "ascii"}

\* the types of the values given to clean_filename as filename
ArgTypes == {"str", "NoneType", "int"}

\* a variant that checks the mode before the type of the filename
CleanRaiseModeFirst(t, m) ==
    IF m \notin Modes THEN "ValueError"
    ELSE IF t # "str" THEN "TypeError"
    ELSE "none"

\* what clean_filename raises for a filename of type t: TypeError unless it is a
\* string, and then ValueError when the mode is not one of the two
CleanRaise(t, m) ==
    IF t # "str" THEN "TypeError"
    ELSE IF m \notin Modes THEN "ValueError"
    ELSE "none"

\* what clean_filename raises for a string filename
CleanError(filename, m) == CleanRaise("str", m)

\* a variant that takes the ascii branch in every mode
CleanAsciiAlways(filename, m) ==
    ToAscii(IF HasControl(filename) THEN CollapseControl(filename) ELSE filename)

\* clean_filename(filename, mode) for a string filename and a recognised mode
clean_filename(filename, m) ==
    LET f1 == IF HasControl(filename) THEN CollapseControl(filename) ELSE filename
    IN  IF m = "ascii" THEN ToAscii(f1) ELSE f1

\* 'withNull', the replacement text of utf8fix
WithNull == <<119, 105, 116, 104, 78, 117, 108, 108>>

\* re.sub(r'[\x00-\x1f]+', 'withNull', s, count=1): the first run of control
\* characters is replaced, the rest of s is kept
SubFirstRun(s) ==
    LET ctl == {i \in 1..Len(s) : IsControl(s[i])}
    IN  IF ctl = {} THEN s
        ELSE LET i == CHOOSE k \in ctl : \A j \in ctl : k <= j
                 j == CHOOSE k \in i..Len(s) :
                        /\ \A l \in i..k : IsControl(s[l])
                        /\ k = Len(s) \/ ~IsControl(s[k + 1])
             IN  SubSeq(s, 1, i - 1) \o WithNull \o SubSeq(s, j + 1, Len(s))

\* clean_filename(filename, mode) of utf8fix
utf8fix_clean_filename(filename, m) ==
    LET f1 == SubFirstRun(filename)
    IN  IF m = "ascii" THEN SelectSeq(SelectSeq(Nfkd(f1), NotCombining), IsAscii)
        ELSE f1

-----------------------------------------------------------------------------
(* The file system *)

Root == <<>>

IsPrefix(p, q) == Len(p) <= Len(q) /\ SubSeq(q, 1, Len(p)) = p

Parent(p) == SubSeq(p, 1, Len(p) - 1)

\* os.path.exists(p)
Exists(f, p) == p = Root \/ p \in DOMAIN f

\* os.path.isdir(p)
IsDir(f, p) == p = Root \/ (p \in DOMAIN f /\ f[p].kind = "dir")

\* os.path.isfile(p)
IsFile(f, p) == p \in DOMAIN f /\ f[p].kind = "file"

\* os.path.join(p, name): joining '' gives 'p/', which names p itself
Join(p, name) == IF name = <<>> THEN p ELSE Append(p, name)

\* os.listdir(p), as a set: the order of a listing is the file system's choice
ListDir(f, p) ==
    {q[Len(p) + 1] : q \in {r \in DOMAIN f : Len(r) = Len(p) + 1 /\ IsPrefix(p, r)}}

\* the tree after the entry at src, with all below it, has been moved to dst
Moved(f, src, dst) ==
    LET kept == {q \in DOMAIN f : ~IsPrefix(src, q) /\ ~IsPrefix(dst, q)}
        gone == {q \in DOMAIN f : IsPrefix(src, q)}
        To(q) == dst \o SubSeq(q, Len(src) + 1, Len(q))
        From(q) == src \o SubSeq(q, Len(dst) + 1, Len(q))
    IN  [q \in kept \cup {To(q) : q \in gone} |->
            IF q \in kept THEN f[q] ELSE f[From(q)]]

\* os.rename(src, dst) succeeds (POSIX): src exists, dst's directory exists, dst is
\* not below src, and dst is free, or a file replaced by a file, or an empty
\* directory replaced by a directory
RenameOk(f, src, dst) ==
    /\ src # Root /\ dst # Root
    /\ Exists(f, src)
    /\ IsDir(f, Parent(dst))
    /\ ~IsPrefix(src, dst)
    /\ \/ ~Exists(f, dst)
       \/ IsFile(f, src) /\ IsFile(f, dst)
       \/ IsDir(f, src) /\ IsDir(f, dst) /\ ListDir(f, dst) = {}

\* the result of a call that may raise: the tree it leaves, and whether it returned
Ok(f) == [fs |-> f, ok |-> TRUE]
Raised(f) == [fs |-> f, ok |-> FALSE]

\* os.rename(src, dst)
OsRename(f, src, dst) ==
    IF RenameOk(f, src, dst) THEN Ok(Moved(f, src, dst)) ELSE Raised(f)

\* shutil.move(src, dst): into dst when dst is a directory (shutil.Error when the
\* name is taken there), else os.rename; within one file system the copy that
\* follows a failed os.rename fails as well
ShutilMove(f, src, dst) ==
    LET real_dst == IF IsDir(f, dst) THEN Append(dst, src[Len(src)]) ELSE dst
    IN  IF IsDir(f, dst) /\ Exists(f, real_dst) THEN Raised(f)
        ELSE OsRename(f, src, real_dst)

\* os.rmdir(p)
OsRmdir(f, p) ==
    IF p # Root /\ IsDir(f, p) /\ ListDir(f, p) = {}
    THEN Ok([q \in DOMAIN f \ {p} |-> f[q]])
    ELSE Raised(f)

-----------------------------------------------------------------------------
(* The argument `directory` of process_directory *)

\* what the argument can be: None; ''; a path at which nothing is; a regular file
\* without, and one with, execute permission; a directory the caller may not read
\* or traverse; a directory the caller may read and traverse
Directories == {"None", "empty", "missing", "file", "exefile", "unreadable", "dir"}

\* a variant for which nothing is None
IsNoneNever(d) == FALSE

\* directory is None
IsNone(d) == d = "None"

\* not directory
Falsy(d) == d \in {"None", "empty"}

\* os.path.exists(directory)
PathExists(d) == d \in {"file", "exefile", "unreadable", "dir"}

\* a variant that grants every access
AccessAlways(d) == TRUE

\* os.access(directory, os.R_OK | os.X_OK)
Access(d) == d \in {"exefile", "dir"}

\* os.walk can list directory; what it cannot list it passes over in silence
Listable(d) == d = "dir"

\* the exception the checks of the argument raise, "none" when they pass
Validate(d) ==
    IF IsNone(d) THEN "TypeError"
    ELSE IF Falsy(d) THEN "ValueError"
    ELSE IF ~PathExists(d) THEN "ValueError"
    ELSE IF ~Access(d) THEN "PermissionError"
    ELSE "none"

-----------------------------------------------------------------------------
(* Collision suffixes *)

\* str(n)
RECURSIVE Digits(_)
Digits(n) ==
    IF n < 10 THEN <<Zero + n>> ELSE Digits(n \div 10) \o <<Zero + (n % 10)>>

\* f"{base}-{counter}{ext}"
Suffixed(base, ext, n) == base \o <<Dash>> \o Digits(n) \o ext

\* a variant whose counter starts at 2
FirstFreeFromTwo(f, dir, base, ext) ==
    CHOOSE n \in 2..(Cardinality(DOMAIN f) + 2) :
        /\ ~Exists(f, Join(dir, Suffixed(base, ext, n)))
        /\ \A m \in 2..(n - 1) : Exists(f, Join(dir, Suffixed(base, ext, m)))

\* the counter at which `while os.path.exists(...)` stops: the smallest n >= 1
\* with f"{base}-{n}{ext}" free in dir
FirstFree(f, dir, base, ext) ==
    CHOOSE n \in 1..(Cardinality(DOMAIN f) + 1) :
        /\ ~Exists(f, Join(dir, Suffixed(base, ext, n)))
        /\ \A m \in 1..(n - 1) : Exists(f, Join(dir, Suffixed(base, ext, m)))

\* final_new_path of the file loop: new_path when it is free, else the first free
\* suffixed name
FinalName(f, dir, new_name) ==
    IF ~Exists(f, Join(dir, new_name)) THEN new_name
    ELSE LET se == SplitExt(new_name)
         IN  Suffixed(se[1], se[2], FirstFree(f, dir, se[1], se[2]))

-----------------------------------------------------------------------------
(* The directory merge of process_directory *)

\* for subitem in os.listdir(s): shutil.move(s/subitem, d/subitem); then os.rmdir(s).
\* todo holds the subitems still to move; the set of results over every listing order.
RECURSIVE SubMerge(_, _, _, _)
SubMerge(f, s, d, todo) ==
    IF todo = {} THEN {OsRmdir(f, s)}
    ELSE UNION {
            LET r == ShutilMove(f, Append(s, x), Append(d, x))
            IN  IF r.ok THEN SubMerge(r.fs, s, d, todo \ {x}) ELSE {r}
            : x \in todo}

\* one turn of `for item in os.listdir(old_path)`: the results it can have
MergeItem(f, old, new, item) ==
    LET s == Append(old, item)
        d == Append(new, item)
    IN  IF Exists(f, d)
        THEN IF IsFile(f, s)
             THEN LET se == SplitExt(item)
                      n == FirstFree(f, new, se[1], se[2])
                  IN  {ShutilMove(f, s, Append(new, Suffixed(se[1], se[2], n)))}
             ELSE IF IsDir(f, s) THEN SubMerge(f, s, d, ListDir(f, s))
                  ELSE {Raised(f)}
        ELSE {ShutilMove(f, s, d)}

\* the loop over os.listdir(old_path), then os.rmdir(old_path)
RECURSIVE MergeLoop(_, _, _, _)
MergeLoop(f, old, new, todo) ==
    IF todo = {} THEN {OsRmdir(f, old)}
    ELSE UNION {
            UNION {IF r.ok THEN MergeLoop(r.fs, old, new, todo \ {x}) ELSE {r}
                   : r \in MergeItem(f, old, new, x)}
            : x \in todo}

\* the branch `if os.path.exists(new_path)` of the directory loop
MergeDirectory(f, old, new) ==
    IF IsDir(f, old) THEN MergeLoop(f, old, new, ListDir(f, old)) ELSE {Raised(f)}

-----------------------------------------------------------------------------
(* os.walk(directory, topdown=False) *)

\* a variant that walks no sub-directory
FrameShallow(f, top) ==
    LET names == ListDir(f, top)
        ds == {n \in names : IsDir(f, Append(top, n))}
    IN  [top |-> top, todo |-> {}, files |-> names \ ds, dirs |-> ds]

\* what os.walk holds of a directory once it has listed it: the sub-directories it
\* still has to walk, and the files and directories its caller still has to visit
Frame(f, top) ==
    LET names == ListDir(f, top)
        ds == {n \in names : IsDir(f, Append(top, n))}
    IN  [top |-> top, todo |-> ds, files |-> names \ ds, dirs |-> ds]

Top == stack[Len(stack)]

SetTop(fr) == [stack EXCEPT ![Len(stack)] = fr]

\* a variant that yields a directory as soon as it is listed (topdown=True)
YieldedAtOnce == pc = "walk" /\ stack # <<>>

\* the directory on top is yielded when all its sub-directories have been walked
Yielded == pc = "walk" /\ stack # <<>> /\ Top.todo = {}

\* a variant that takes the else branch of `if dry_run` whatever dry_run is
RealRunAlways == TRUE

\* the else branch of `if dry_run`
RealRun == ~dry_run

IdOf(f, p) == IF p \in DOMAIN f THEN f[p].id ELSE p

NoStep == [op |-> "none", kind |-> "none", old |-> Root, new |-> Root]

Rec(msg, old, new) == [msg |-> msg, old |-> old, new |-> new]

\* os.walk enters one of the sub-directories it listed (a directory it can no
\* longer list is skipped)
WalkDescend ==
    /\ pc = "walk" /\ stack # <<>> /\ Top.todo # {}
    /\ \E d \in Top.todo :
          LET p == Append(Top.top, d)
              rest == SetTop([Top EXCEPT !.todo = @ \ {d}])
          IN  stack' = IF IsDir(fs, p) THEN Append(rest, Frame(fs, p)) ELSE rest
    /\ last' = NoStep
    /\ UNCHANGED <<fs, fs0, mode, dry_run, pc, log, processed, cname,
                   directory, exc, runs, ctype, cres>>

\* the body of `for name in files` has run for name
DoneFile(name) ==
    /\ CleanError(name, mode) = "none"
    /\ stack' = SetTop([Top EXCEPT !.files = @ \ {name}])
    /\ processed' = processed \cup {IdOf(fs, Append(Top.top, name))}
    /\ UNCHANGED <<fs0, mode, dry_run, pc, cname, directory, exc, runs, ctype, cres>>

\* a file whose name is already clean
FileUnchanged ==
    /\ Yielded /\ Top.files # {}
    /\ \E name \in Top.files :
          /\ clean_filename(name, mode) = name
          /\ DoneFile(name)
          /\ last' = [NoStep EXCEPT !.kind = "file", !.old = Append(Top.top, name)]
    /\ UNCHANGED <<fs, log>>

\* dry run: the rename of a file is only logged
FileWouldRename ==
    /\ Yielded /\ Top.files # {} /\ dry_run
    /\ \E name \in Top.files :
          LET new_name == clean_filename(name, mode)
              old_path == Append(Top.top, name)
              new_path == Join(Top.top, new_name)
          IN  /\ new_name # name
              /\ log' = Append(log, Rec("Would rename file", old_path, new_path))
              /\ last' = [op |-> "would", kind |-> "file",
                          old |-> old_path, new |-> new_path]
              /\ DoneFile(name)
    /\ UNCHANGED fs

\* real run: the file is renamed to the first free name; an OSError is logged
FileRename ==
    /\ Yielded /\ Top.files # {} /\ RealRun
    /\ \E name \in Top.files :
          LET new_name == clean_filename(name, mode)
              old_path == Append(Top.top, name)
              final_new_path == Join(Top.top, FinalName(fs, Top.top, new_name))
              r == OsRename(fs, old_path, final_new_path)
          IN  /\ new_name # name
              /\ fs' = r.fs
              /\ IF r.ok
                 THEN /\ log' = Append(log, Rec("Renamed file", old_path, final_new_path))
                      /\ last' = [op |-> "rename", kind |-> "file",
                                  old |-> old_path, new |-> final_new_path]
                 ELSE /\ log' = Append(log, Rec("Error renaming file", old_path, old_path))
                      /\ last' = [op |-> "error", kind |-> "file",
                                  old |-> old_path, new |-> final_new_path]
              /\ DoneFile(name)

\* the body of `for name in dirs` has run for name
DoneDir(name) ==
    /\ CleanError(name, mode) = "none"
    /\ stack' = SetTop([Top EXCEPT !.dirs = @ \ {name}])
    /\ processed' = processed \cup {IdOf(fs, Append(Top.top, name))}
    /\ UNCHANGED <<fs0, mode, dry_run, cname, directory, runs, ctype, cres>>

\* the directories of a yielded directory are visited after its files
DirsTurn == Yielded /\ Top.files = {} /\ Top.dirs # {}

\* a directory whose name is already clean
DirUnchanged ==
    /\ DirsTurn
    /\ \E name \in Top.dirs :
          /\ clean_filename(name, mode) = name
          /\ DoneDir(name)
          /\ last' = [NoStep EXCEPT !.kind = "dir", !.old = Append(Top.top, name)]
    /\ UNCHANGED <<fs, log, pc, exc>>

\* dry run: the rename of a directory is only logged
DirWouldRename ==
    /\ DirsTurn /\ dry_run
    /\ \E name \in Top.dirs :
          LET new_name == clean_filename(name, mode)
              old_path == Append(Top.top, name)
              new_path == Join(Top.top, new_name)
          IN  /\ new_name # name
              /\ log' = Append(log, Rec("Would rename directory", old_path, new_path))
              /\ last' = [op |-> "would", kind |-> "dir",
                          old |-> old_path, new |-> new_path]
              /\ DoneDir(name)
    /\ UNCHANGED <<fs, pc, exc>>

\* real run, new_path free: the directory is renamed; an OSError is logged
DirRename ==
    /\ DirsTurn /\ RealRun
    /\ \E name \in Top.dirs :
          LET new_name == clean_filename(name, mode)
              old_path == Append(Top.top, name)
              new_path == Join(Top.top, new_name)
              r == OsRename(fs, old_path, new_path)
          IN  /\ new_name # name
              /\ ~Exists(fs, new_path)
              /\ fs' = r.fs
              /\ IF r.ok
                 THEN /\ log' = Append(log, Rec("Renamed directory", old_path, new_path))
                      /\ last' = [op |-> "rename", kind |-> "dir",
                                  old |-> old_path, new |-> new_path]
                 ELSE /\ log' = Append(log, Rec("Error renaming directory", old_path, old_path))
                      /\ last' = [op |-> "error", kind |-> "dir",
                                  old |-> old_path, new |-> new_path]
              /\ DoneDir(name)
    /\ UNCHANGED <<pc, exc>>

\* real run, new_path taken: the directory's entries are moved into new_path and
\* the directory is removed; no exception of the moves is caught here
DirMerge ==
    /\ DirsTurn /\ RealRun
    /\ \E name \in Top.dirs :
          LET new_name == clean_filename(name, mode)
              old_path == Append(Top.top, name)
              new_path == Join(Top.top, new_name)
          IN  /\ new_name # name
              /\ Exists(fs, new_path)
              /\ \E r \in MergeDirectory(fs, old_path, new_path) :
                    /\ fs' = r.fs
                    /\ IF r.ok
                       THEN /\ log' = Append(log, Rec("Merged and removed directory",
                                                       old_path, new_path))
                            /\ last' = [op |-> "merge", kind |-> "dir",
                                        old |-> old_path, new |-> new_path]
                            /\ pc' = pc
                            /\ exc' = exc
                       ELSE /\ log' = log
                            /\ last' = [op |-> "raise", kind |-> "dir",
                                        old |-> old_path, new |-> new_path]
                            /\ pc' = "raised"
                            /\ exc' = "OSError"
              /\ DoneDir(name)

\* the loops over a yielded directory are over: os.walk goes on with its parent,
\* and process_directory returns after the root
WalkReturn ==
    /\ Yielded /\ Top.files = {} /\ Top.dirs = {}
    /\ stack' = SubSeq(stack, 1, Len(stack) - 1)
    /\ pc' = IF Len(stack) = 1 THEN "done" ELSE pc
    /\ last' = NoStep
    /\ UNCHANGED <<fs, fs0, mode, dry_run, log, processed, cname,
                   directory, exc, runs, ctype, cres>>

-----------------------------------------------------------------------------
(* The runs of process_directory that are explored *)

\* the names of the entries of the largest initial trees: 'é.t', which is 'e.t'
\* in ascii mode, and 'e.t'
PairNames == { <<233, Dot, 116>>, <<101, Dot, 116>> }

\* in smaller trees also 'e\x01', which ends with a control character
CoreNames == PairNames \cup { <<101, 1>> }

\* and in the smallest also 'è.t' (again 'e.t' in ascii mode) and 'e-1.t'
TreeNames == CoreNames \cup { <<232, Dot, 116>>, <<101, Dash, Zero + 1, Dot, 116>> }

Kinds == {"file", "dir"}

Entry(p, k) == [kind |-> k, id |-> p]

\* the trees with one more entry than t: a file or a directory, in the root or in
\* a directory of t
Extensions(t, names) ==
    LET ds == {Root} \cup {p \in DOMAIN t : t[p].kind = "dir"}
        new == {x \in ds \X names \X Kinds :
                    Len(x[1]) < MaxDepth /\ Append(x[1], x[2]) \notin DOMAIN t}
    IN  {t @@ (Append(x[1], x[2]) :> Entry(Append(x[1], x[2]), x[3])) : x \in new}

RECURSIVE TreesUpTo(_, _)
TreesUpTo(names, k) ==
    IF k = 0 THEN {<<>>}
    ELSE LET ts == TreesUpTo(names, k - 1)
         IN  ts \cup UNION {Extensions(t, names) : t \in ts}

Trees ==
    TreesUpTo(TreeNames, MaxEntries) \cup TreesUpTo(CoreNames, MaxCoreEntries)
        \cup TreesUpTo(PairNames, MaxPairEntries)

\* process_directory(directory, mode, dry_run) has been called on an existing,
\* readable directory
Init ==
    /\ fs \in Trees
    /\ fs0 = fs
    /\ mode \in Modes
    /\ dry_run \in BOOLEAN
    /\ pc = "called"
    /\ stack = <<>>
    /\ log = <<>>
    /\ processed = {}
    /\ last = NoStep
    /\ cname = <<>>
    /\ cres = <<>>
    /\ directory = "dir"
    /\ exc = "none"
    /\ runs = 0 /\ ctype = "str"

\* the checks of the argument pass and os.walk lists the root
WalkStart ==
    /\ pc = "called"
    /\ Validate(directory) = "none" /\ Listable(directory)
    /\ pc' = "walk"
    /\ stack' = <<Frame(fs, Root)>>
    /\ last' = NoStep
    /\ UNCHANGED <<fs, fs0, mode, dry_run, log, processed, cname,
                   directory, exc, runs, ctype, cres>>

Next ==
    \/ WalkStart
    \/ WalkDescend
    \/ FileUnchanged
    \/ FileWouldRename
    \/ FileRename
    \/ DirUnchanged
    \/ DirWouldRename
    \/ DirRename
    \/ DirMerge
    \/ WalkReturn

Spec == Init /\ [][Next]_vars

-----------------------------------------------------------------------------
(* The calls of process_directory with any argument and any mode *)

\* most entries below the root in the tree of such a call
MaxCallEntries == 2

AnyModes == Modes \cup {"other"}

\* process_directory(directory, mode, dry_run) has been called
InitCall ==
    /\ fs \in TreesUpTo(CoreNames, MaxCallEntries)
    /\ fs0 = fs
    /\ mode \in AnyModes
    /\ dry_run \in BOOLEAN
    /\ directory \in Directories
    /\ pc = "called"
    /\ stack = <<>>
    /\ log = <<>>
    /\ processed = {}
    /\ last = NoStep
    /\ cname = <<>>
    /\ cres = <<>>
    /\ exc = "none"
    /\ runs = 0 /\ ctype = "str"

\* a check of the argument raises
Reject ==
    /\ pc = "called"
    /\ Validate(directory) # "none"
    /\ pc' = "raised"
    /\ exc' = Validate(directory)
    /\ last' = NoStep
    /\ UNCHANGED <<fs, fs0, mode, dry_run, stack, log, processed, cname, cres, directory, runs, ctype>>

\* the checks pass, os.walk cannot list the argument and yields nothing:
\* process_directory returns
WalkNothing ==
    /\ pc = "called"
    /\ Validate(directory) = "none" /\ ~Listable(directory)
    /\ pc' = "done"
    /\ last' = NoStep
    /\ UNCHANGED <<fs, fs0, mode, dry_run, stack, log, processed, cname, cres,
                   directory, exc, runs, ctype>>

\* clean_filename raises for the first name of a yielded directory; nothing in
\* process_directory catches it
CleanRaises ==
    /\ Yielded
    /\ \E name \in (IF Top.files # {} THEN Top.files ELSE Top.dirs) :
          /\ CleanError(name, mode) # "none"
          /\ exc' = CleanError(name, mode)
          /\ last' = [op |-> "raise", old |-> Append(Top.top, name), new |-> Root,
                      kind |-> IF Top.files # {} THEN "file" ELSE "dir"]
    /\ pc' = "raised"
    /\ UNCHANGED <<fs, fs0, mode, dry_run, stack, log, processed, cname, cres, directory, runs, ctype>>

NextCall == Reject \/ WalkNothing \/ CleanRaises \/ Next

CallSpec == InitCall /\ [][NextCall]_vars

\* a real run has returned, and process_directory is called again with the same
\* arguments on the tree that run has left
Rerun ==
    /\ pc = "done" /\ ~dry_run /\ runs < MaxReruns
    /\ pc' = "called"
    /\ runs' = runs + 1
    /\ fs' = [p \in DOMAIN fs |-> Entry(p, fs[p].kind)]
    /\ fs0' = fs'
    /\ stack' = <<>>
    /\ log' = <<>>
    /\ processed' = {}
    /\ last' = NoStep
    /\ UNCHANGED <<mode, dry_run, cname, cres, directory, exc, ctype>>

NextRerun == Next \/ Rerun

RerunSpec == Init /\ [][NextRerun]_vars

-----------------------------------------------------------------------------
(* process_path: path.rglob('*') and the body of its loop *)

\* what rglob holds of a directory it selects from: the entries of the listing
\* that are still to be yielded as item, whether the directory has been listed
\* again for the descent, and the sub-directories of that listing still to enter
Selection(f, top) ==
    [top |-> top, items |-> ListDir(f, top), listed |-> FALSE, todo |-> {}]

\* an item is yielded to the loop of process_path
Selecting == pc = "rglob" /\ stack # <<>> /\ Top.items # {}

\* the body of `for item in path.rglob('*')` has run for name
DoneItem(name) ==
    /\ stack' = SetTop([Top EXCEPT !.items = @ \ {name}])
    /\ processed' = processed \cup {IdOf(fs, Append(Top.top, name))}
    /\ UNCHANGED <<fs0, mode, dry_run, pc, cname, directory, exc, runs, ctype, cres>>

\* an item whose name is already clean
ItemUnchanged ==
    /\ Selecting
    /\ \E name \in Top.items :
          /\ clean_filename(name, mode) = name
          /\ DoneItem(name)
          /\ last' = [NoStep EXCEPT !.old = Append(Top.top, name),
                        !.kind = IF IsFile(fs, Append(Top.top, name)) THEN "file" ELSE "dir"]
    /\ UNCHANGED <<fs, log>>

\* dry run: the rename of the item is only logged
ItemWouldRename ==
    /\ Selecting /\ dry_run
    /\ \E name \in Top.items :
          LET new_name == clean_filename(name, mode)
              item == Append(Top.top, name)
              target == Join(Top.top, new_name)
              kind == IF IsFile(fs, item) THEN "file" ELSE "dir"
          IN  /\ new_name # name
              /\ log' = Append(log, Rec(IF kind = "file" THEN "Would rename file"
                                        ELSE "Would rename directory", item, target))
              /\ last' = [op |-> "would", kind |-> kind, old |-> item, new |-> target]
              /\ DoneItem(name)
    /\ UNCHANGED fs

\* real run, item.is_file(): the file is moved to the first free name
ItemFileRename ==
    /\ Selecting /\ RealRun
    /\ \E name \in Top.items :
          LET new_name == clean_filename(name, mode)
              item == Append(Top.top, name)
              target == Join(Top.top, FinalName(fs, Top.top, new_name))
              r == ShutilMove(fs, item, target)
          IN  /\ new_name # name
              /\ IsFile(fs, item)
              /\ fs' = r.fs
              /\ IF r.ok
                 THEN /\ log' = Append(log, Rec("Renamed file", item, target))
                      /\ last' = [op |-> "rename", kind |-> "file",
                                  old |-> item, new |-> target]
                 ELSE /\ log' = Append(log, Rec("Failed to rename", item, item))
                      /\ last' = [op |-> "error", kind |-> "file",
                                  old |-> item, new |-> target]
              /\ DoneItem(name)

\* real run, not a file, target free: the directory is moved
ItemDirRename ==
    /\ Selecting /\ RealRun
    /\ \E name \in Top.items :
          LET new_name == clean_filename(name, mode)
              item == Append(Top.top, name)
              target == Join(Top.top, new_name)
              r == ShutilMove(fs, item, target)
          IN  /\ new_name # name
              /\ ~IsFile(fs, item)
              /\ ~Exists(fs, target)
              /\ fs' = r.fs
              /\ IF r.ok
                 THEN /\ log' = Append(log, Rec("Renamed directory", item, target))
                      /\ last' = [op |-> "rename", kind |-> "dir",
                                  old |-> item, new |-> target]
                 ELSE /\ log' = Append(log, Rec("Failed to rename", item, item))
                      /\ last' = [op |-> "error", kind |-> "dir",
                                  old |-> item, new |-> target]
              /\ DoneItem(name)

\* real run, not a file, target taken: the entries of the directory are moved into
\* target and the directory is removed; `except Exception` logs what the moves raise
ItemDirMerge ==
    /\ Selecting /\ RealRun
    /\ \E name \in Top.items :
          LET new_name == clean_filename(name, mode)
              item == Append(Top.top, name)
              target == Join(Top.top, new_name)
          IN  /\ new_name # name
              /\ ~IsFile(fs, item)
              /\ Exists(fs, target)
              /\ \E r \in MergeDirectory(fs, item, target) :
                    /\ fs' = r.fs
                    /\ IF r.ok
                       THEN /\ log' = Append(log, Rec("Merged and removed directory",
                                                       item, target))
                            /\ last' = [op |-> "merge", kind |-> "dir",
                                        old |-> item, new |-> target]
                       ELSE /\ log' = Append(log, Rec("Error processing", item, item))
                            /\ last' = [op |-> "error", kind |-> "dir",
                                        old |-> item, new |-> target]
              /\ DoneItem(name)

\* every item of the directory on top has been yielded: rglob lists the directory
\* again, for the sub-directories to select from next (a listing that fails with
\* anything but PermissionError leaves rglob, and process_path)
RglobList ==
    /\ pc = "rglob" /\ stack # <<>> /\ Top.items = {} /\ ~Top.listed
    /\ IF IsDir(fs, Top.top)
       THEN /\ stack' = SetTop([Top EXCEPT !.listed = TRUE, !.todo = Frame(fs, Top.top).dirs])
            /\ pc' = pc
       ELSE /\ stack' = stack
            /\ pc' = "praised"
    /\ last' = NoStep
    /\ UNCHANGED <<fs, fs0, mode, dry_run, log, processed, cname,
                   directory, exc, runs, ctype, cres>>

\* rglob selects from one of the sub-directories it listed
RglobDescend ==
    /\ pc = "rglob" /\ stack # <<>> /\ Top.listed /\ Top.todo # {}
    /\ \E d \in Top.todo :
          LET p == Append(Top.top, d)
              rest == SetTop([Top EXCEPT !.todo = @ \ {d}])
          IN  IF IsDir(fs, p)
              THEN stack' = Append(rest, Selection(fs, p)) /\ pc' = pc
              ELSE stack' = rest /\ pc' = "praised"
    /\ last' = NoStep
    /\ UNCHANGED <<fs, fs0, mode, dry_run, log, processed, cname,
                   directory, exc, runs, ctype, cres>>

\* rglob is through with the directory on top; process_path returns after the root
RglobReturn ==
    /\ pc = "rglob" /\ stack # <<>> /\ Top.listed /\ Top.todo = {}
    /\ stack' = SubSeq(stack, 1, Len(stack) - 1)
    /\ pc' = IF Len(stack) = 1 THEN "pdone" ELSE pc
    /\ last' = NoStep
    /\ UNCHANGED <<fs, fs0, mode, dry_run, log, processed, cname,
                   directory, exc, runs, ctype, cres>>

\* process_path(path, mode, dry_run) has been called on an existing directory
InitPath ==
    /\ fs \in Trees
    /\ fs0 = fs
    /\ mode \in Modes
    /\ dry_run \in BOOLEAN
    /\ pc = "pcalled"
    /\ stack = <<>>
    /\ log = <<>>
    /\ processed = {}
    /\ last = NoStep
    /\ cname = <<>>
    /\ cres = <<>>
    /\ directory = "dir"
    /\ exc = "none"
    /\ runs = 0 /\ ctype = "str"

\* rglob lists the root
PathStart ==
    /\ pc = "pcalled"
    /\ Listable(directory)
    /\ pc' = "rglob"
    /\ stack' = <<Selection(fs, Root)>>
    /\ last' = NoStep
    /\ UNCHANGED <<fs, fs0, mode, dry_run, log, processed, cname,
                   directory, exc, runs, ctype, cres>>

NextPath ==
    \/ PathStart
    \/ ItemUnchanged
    \/ ItemWouldRename
    \/ ItemFileRename
    \/ ItemDirRename
    \/ ItemDirMerge
    \/ RglobList
    \/ RglobDescend
    \/ RglobReturn

PathSpec == InitPath /\ [][NextPath]_vars

\* the runs of process_directory and those of process_path
NextRun == Next \/ NextPath

RunSpec == (Init \/ InitPath) /\ [][NextRun]_vars

-----------------------------------------------------------------------------
(* main *)

\* what the positional argument of the command line names: Path('') is the
\* current directory, which is not explored here
Targets == Directories \ {"None", "empty"}

\* main() has been called and is about to parse the command line
InitMain ==
    /\ fs \in TreesUpTo(CoreNames, MaxCallEntries)
    /\ fs0 = fs
    /\ mode \in AnyModes
    /\ dry_run \in BOOLEAN
    /\ directory \in Targets
    /\ pc = "main"
    /\ stack = <<>>
    /\ log = <<>>
    /\ processed = {}
    /\ last = NoStep
    /\ cname = <<>>
    /\ cres = <<>>
    /\ exc = "none"
    /\ runs = 0 /\ ctype = "str"

\* parse_args() refuses a --mode that is not among the choices and exits
MainUsage ==
    /\ pc = "main"
    /\ mode \notin Modes
    /\ pc' = "exited"
    /\ exc' = "SystemExit"
    /\ last' = NoStep
    /\ UNCHANGED <<fs, fs0, mode, dry_run, stack, log, processed, cname, cres,
                   directory, runs, ctype>>

\* the target does not exist: main logs the error and returns
MainMissing ==
    /\ pc = "main"
    /\ mode \in Modes
    /\ ~PathExists(directory)
    /\ log' = Append(log, Rec("Path does not exist", Root, Root))
    /\ pc' = "returned"
    /\ last' = NoStep
    /\ UNCHANGED <<fs, fs0, mode, dry_run, stack, processed, cname, cres,
                   directory, exc, runs, ctype>>

\* the target exists: main logs 'Scanning' and calls process_path
MainScan ==
    /\ pc = "main"
    /\ mode \in Modes
    /\ PathExists(directory)
    /\ log' = Append(log, Rec("Scanning", Root, Root))
    /\ pc' = "pcalled"
    /\ last' = NoStep
    /\ UNCHANGED <<fs, fs0, mode, dry_run, stack, processed, cname, cres,
                   directory, exc, runs, ctype>>

\* rglob yields nothing for a target that is a file or cannot be listed:
\* process_path returns
PathNothing ==
    /\ pc = "pcalled"
    /\ ~Listable(directory)
    /\ pc' = "pdone"
    /\ last' = NoStep
    /\ UNCHANGED <<fs, fs0, mode, dry_run, stack, log, processed, cname, cres,
                   directory, exc, runs, ctype>>

\* process_path has returned: main logs 'Processing completed.' and returns
MainCompleted ==
    /\ pc = "pdone"
    /\ log' = Append(log, Rec("Processing completed.", Root, Root))
    /\ pc' = "returned"
    /\ last' = NoStep
    /\ UNCHANGED <<fs, fs0, mode, dry_run, stack, processed, cname, cres,
                   directory, exc, runs, ctype>>

NextMain ==
    \/ MainUsage
    \/ MainMissing
    \/ MainScan
    \/ PathNothing
    \/ MainCompleted
    \/ NextPath

MainSpec == InitMain /\ [][NextMain]_vars

-----------------------------------------------------------------------------
(* process_directory of utf8fix *)

\* the initial trees of the runs of utf8fix
Utf8Trees == TreesUpTo(CoreNames, MaxCoreEntries)

\* first pass, os.walk(directory, topdown=False) of which the files are ignored
DirsFrame(f, top) == [Frame(f, top) EXCEPT !.files = {}]

\* second pass, os.walk(directory) of which the directories are only walked:
\* the files of top are visited first, its sub-directories are entered after
FilesFrame(f, top) == [Frame(f, top) EXCEPT !.dirs = {}]

\* process_directory(directory, mode, dry_run) of utf8fix has been called on an
\* existing directory
InitUtf8 ==
    /\ fs \in Utf8Trees
    /\ fs0 = fs
    /\ mode \in Modes
    /\ dry_run \in BOOLEAN
    /\ directory = "dir"
    /\ pc = "ucalled"
    /\ stack = <<>>
    /\ log = <<>>
    /\ processed = {}
    /\ last = NoStep
    /\ cname = <<>>
    /\ cres = <<>>
    /\ exc = "none"
    /\ runs = 0 /\ ctype = "str"

\* the checks of the argument pass and the first walk lists the root
Utf8Start ==
    /\ pc = "ucalled"
    /\ ~IsNone(directory) /\ ~Falsy(directory) /\ PathExists(directory)
    /\ Listable(directory)
    /\ pc' = "udirs"
    /\ stack' = <<DirsFrame(fs, Root)>>
    /\ last' = NoStep
    /\ UNCHANGED <<fs, fs0, mode, dry_run, log, processed, cname,
                   directory, exc, runs, ctype, cres>>

\* the first walk enters one of the sub-directories it listed
Utf8DirsDescend ==
    /\ pc = "udirs" /\ stack # <<>> /\ Top.todo # {}
    /\ \E d \in Top.todo :
          LET p == Append(Top.top, d)
              rest == SetTop([Top EXCEPT !.todo = @ \ {d}])
          IN  stack' = IF IsDir(fs, p) THEN Append(rest, DirsFrame(fs, p)) ELSE rest
    /\ last' = NoStep
    /\ UNCHANGED <<fs, fs0, mode, dry_run, pc, log, processed, cname,
                   directory, exc, runs, ctype, cres>>

\* the directory on top is yielded by the first walk
Utf8DirsYielded == pc = "udirs" /\ stack # <<>> /\ Top.todo = {}

\* the body of `for name in dirs` has run for name
Utf8DoneDir(name) ==
    /\ stack' = SetTop([Top EXCEPT !.dirs = @ \ {name}])
    /\ processed' = processed \cup {IdOf(fs, Append(Top.top, name))}
    /\ UNCHANGED <<fs0, mode, dry_run, pc, cname, directory, exc, runs, ctype, cres>>

\* a directory whose name is already clean
Utf8DirUnchanged ==
    /\ Utf8DirsYielded /\ Top.dirs # {}
    /\ \E name \in Top.dirs :
          /\ utf8fix_clean_filename(name, mode) = name
          /\ Utf8DoneDir(name)
          /\ last' = [NoStep EXCEPT !.kind = "dir", !.old = Append(Top.top, name)]
    /\ UNCHANGED <<fs, log>>

\* dry run: the rename of a directory is only logged
Utf8DirWouldRename ==
    /\ Utf8DirsYielded /\ Top.dirs # {} /\ dry_run
    /\ \E name \in Top.dirs :
          LET new_name == utf8fix_clean_filename(name, mode)
              old_path == Append(Top.top, name)
              new_path == Join(Top.top, new_name)
          IN  /\ new_name # name
              /\ log' = Append(log, Rec("Would rename directory", old_path, new_path))
              /\ last' = [op |-> "would", kind |-> "dir",
                          old |-> old_path, new |-> new_path]
              /\ Utf8DoneDir(name)
    /\ UNCHANGED fs

\* real run: os.rename(old_path, new_path) of a directory; what it raises is
\* logged
Utf8DirRename ==
    /\ Utf8DirsYielded /\ Top.dirs # {} /\ ~dry_run
    /\ \E name \in Top.dirs :
          LET new_name == utf8fix_clean_filename(name, mode)
              old_path == Append(Top.top, name)
              new_path == Join(Top.top, new_name)
              r == OsRename(fs, old_path, new_path)
          IN  /\ new_name # name
              /\ fs' = r.fs
              /\ IF r.ok
                 THEN /\ log' = Append(log, Rec("Renamed directory", old_path, new_path))
                      /\ last' = [op |-> "rename", kind |-> "dir",
                                  old |-> old_path, new |-> new_path]
                 ELSE /\ log' = Append(log, Rec("Error processing directory", old_path, old_path))
                      /\ last' = [op |-> "error", kind |-> "dir",
                                  old |-> old_path, new |-> new_path]
              /\ Utf8DoneDir(name)

\* the first walk leaves a directory below the root
Utf8DirsReturn ==
    /\ Utf8DirsYielded /\ Top.dirs = {} /\ Len(stack) > 1
    /\ stack' = SubSeq(stack, 1, Len(stack) - 1)
    /\ last' = NoStep
    /\ UNCHANGED <<fs, fs0, mode, dry_run, pc, log, processed, cname,
                   directory, exc, runs, ctype, cres>>

\* the first walk is over and the second lists the root
Utf8FilesStart ==
    /\ Utf8DirsYielded /\ Top.dirs = {} /\ Len(stack) = 1
    /\ pc' = "ufiles"
    /\ stack' = <<FilesFrame(fs, Root)>>
    /\ last' = NoStep
    /\ UNCHANGED <<fs, fs0, mode, dry_run, log, processed, cname,
                   directory, exc, runs, ctype, cres>>

\* the body of `for name in files` has run for name
Utf8DoneFile(name) ==
    /\ stack' = SetTop([Top EXCEPT !.files = @ \ {name}])
    /\ processed' = processed \cup {IdOf(fs, Append(Top.top, name))}
    /\ UNCHANGED <<fs0, mode, dry_run, pc, cname, directory, exc, runs, ctype, cres>>

\* a file whose name is already clean
Utf8FileUnchanged ==
    /\ pc = "ufiles" /\ stack # <<>> /\ Top.files # {}
    /\ \E name \in Top.files :
          /\ utf8fix_clean_filename(name, mode) = name
          /\ Utf8DoneFile(name)
          /\ last' = [NoStep EXCEPT !.kind = "file", !.old = Append(Top.top, name)]
    /\ UNCHANGED <<fs, log>>

\* dry run: the rename of a file is only logged
Utf8FileWouldRename ==
    /\ pc = "ufiles" /\ stack # <<>> /\ Top.files # {} /\ dry_run
    /\ \E name \in Top.files :
          LET new_name == utf8fix_clean_filename(name, mode)
              old_path == Append(Top.top, name)
              new_path == Join(Top.top, new_name)
          IN  /\ new_name # name
              /\ log' = Append(log, Rec("Would rename file", old_path, new_path))
              /\ last' = [op |-> "would", kind |-> "file",
                          old |-> old_path, new |-> new_path]
              /\ Utf8DoneFile(name)
    /\ UNCHANGED fs

\* real run: os.rename(old_path, new_path) of a file; what it raises is logged
Utf8FileRename ==
    /\ pc = "ufiles" /\ stack # <<>> /\ Top.files # {} /\ ~dry_run
    /\ \E name \in Top.files :
          LET new_name == utf8fix_clean_filename(name, mode)
              old_path == Append(Top.top, name)
              new_path == Join(Top.top, new_name)
              r == OsRename(fs, old_path, new_path)
          IN  /\ new_name # name
              /\ fs' = r.fs
              /\ IF r.ok
                 THEN /\ log' = Append(log, Rec("Renamed file", old_path, new_path))
                      /\ last' = [op |-> "rename", kind |-> "file",
                                  old |-> old_path, new |-> new_path]
                 ELSE /\ log' = Append(log, Rec("Error processing", old_path, old_path))
                      /\ last' = [op |-> "error", kind |-> "file",
                                  old |-> old_path, new |-> new_path]
              /\ Utf8DoneFile(name)

\* the second walk enters a sub-directory of a directory whose files are done
Utf8FilesDescend ==
    /\ pc = "ufiles" /\ stack # <<>> /\ Top.files = {} /\ Top.todo # {}
    /\ \E d \in Top.todo :
          LET p == Append(Top.top, d)
              rest == SetTop([Top EXCEPT !.todo = @ \ {d}])
          IN  stack' = IF IsDir(fs, p) THEN Append(rest, FilesFrame(fs, p)) ELSE rest
    /\ last' = NoStep
    /\ UNCHANGED <<fs, fs0, mode, dry_run, pc, log, processed, cname,
                   directory, exc, runs, ctype, cres>>

\* the second walk leaves a directory; process_directory returns when it
\* leaves the root
Utf8FilesReturn ==
    /\ pc = "ufiles" /\ stack # <<>> /\ Top.files = {} /\ Top.todo = {}
    /\ stack' = SubSeq(stack, 1, Len(stack) - 1)
    /\ pc' = IF Len(stack) = 1 THEN "udone" ELSE pc
    /\ last' = NoStep
    /\ UNCHANGED <<fs, fs0, mode, dry_run, log, processed, cname,
                   directory, exc, runs, ctype, cres>>

NextUtf8 ==
    \/ Utf8Start
    \/ Utf8DirsDescend
    \/ Utf8DirUnchanged
    \/ Utf8DirWouldRename
    \/ Utf8DirRename
    \/ Utf8DirsReturn
    \/ Utf8FilesStart
    \/ Utf8FileUnchanged
    \/ Utf8FileWouldRename
    \/ Utf8FileRename
    \/ Utf8FilesDescend
    \/ Utf8FilesReturn

Utf8Spec == InitUtf8 /\ [][NextUtf8]_vars

-----------------------------------------------------------------------------
(* process_directory of src/unifile/unifile.py *)

\* the positional parameters of the clean_filename that the module binds when
\* process_directory runs: the definition of line 138, which replaces the one
\* of line 16
BoundCleanParams == 1

\* the arguments of the calls clean_filename(name, mode) of process_directory
CleanCallArgs == 2

\* what a call clean_filename(name, mode) of process_directory raises
BoundCleanError == IF CleanCallArgs > BoundCleanParams THEN "TypeError" ELSE "none"

\* process_directory(directory, mode, dry_run) of src/unifile/unifile.py has
\* been called on an existing directory
InitSrc ==
    /\ fs \in TreesUpTo(CoreNames, MaxCallEntries)
    /\ fs0 = fs
    /\ mode \in Modes
    /\ dry_run \in BOOLEAN
    /\ directory = "dir"
    /\ pc = "called"
    /\ stack = <<>>
    /\ log = <<>>
    /\ processed = {}
    /\ last = NoStep
    /\ cname = <<>>
    /\ cres = <<>>
    /\ exc = "none"
    /\ runs = 0 /\ ctype = "str"

\* the three checks of the argument pass and os.walk lists the root
SrcStart ==
    /\ pc = "called"
    /\ ~IsNone(directory) /\ ~Falsy(directory) /\ PathExists(directory)
    /\ Listable(directory)
    /\ pc' = "walk"
    /\ stack' = <<Frame(fs, Root)>>
    /\ last' = NoStep
    /\ UNCHANGED <<fs, fs0, mode, dry_run, log, processed, cname,
                   directory, exc, runs, ctype, cres>>

\* the call clean_filename(name, mode) for the first name of a yielded
\* directory raises, outside any try: the exception leaves process_directory,
\* and nothing of the loop bodies after the call is reached
SrcCleanRaises ==
    /\ Yielded
    /\ Top.files \cup Top.dirs # {}
    /\ BoundCleanError # "none"
    /\ \E name \in (IF Top.files # {} THEN Top.files ELSE Top.dirs) :
          last' = [op |-> "raise", old |-> Append(Top.top, name), new |-> Root,
                   kind |-> IF Top.files # {} THEN "file" ELSE "dir"]
    /\ exc' = BoundCleanError
    /\ pc' = "raised"
    /\ UNCHANGED <<fs, fs0, mode, dry_run, stack, log, processed, cname, cres,
                   directory, runs, ctype>>

NextSrc == SrcStart \/ WalkDescend \/ SrcCleanRaises \/ WalkReturn

SrcSpec == InitSrc /\ [][NextSrc]_vars

-----------------------------------------------------------------------------
(* Calls of clean_filename *)

\* the characters of the names given to clean_filename: a control character,
\* '.', 'e', 'Ö', 'ß', 'é', 'ü', a combining acute accent, 'ẞ' and '日'
CleanAlphabet == {1, Dot, 101, 214, 223, 233, 252, 769, 7838, 26085}

CleanNames == UNION {[1..n -> CleanAlphabet] : n \in 0..MaxNameLen}

InitClean ==
    /\ cname \in CleanNames
    /\ mode \in Modes
    /\ cres = <<>>
    /\ pc = "clean"
    /\ fs = <<>> /\ fs0 = <<>> /\ dry_run = FALSE /\ stack = <<>>
    /\ log = <<>> /\ processed = {} /\ last = NoStep
    /\ directory = "dir" /\ exc = "none" /\ runs = 0 /\ ctype = "str"

\* clean_filename(cname, mode)
CleanFirst ==
    /\ pc = "clean" /\ cres = <<>>
    /\ CleanRaise(ctype, mode) = "none"
    /\ cres' = <<clean_filename(cname, mode)>>
    /\ UNCHANGED <<fs, fs0, mode, dry_run, pc, stack, log, processed, last, cname,
                   directory, exc, runs, ctype>>

\* clean_filename applied to its own result
CleanAgain ==
    /\ pc = "clean" /\ Len(cres) = 1
    /\ cres' = Append(cres, clean_filename(cres[1], mode))
    /\ UNCHANGED <<fs, fs0, mode, dry_run, pc, stack, log, processed, last, cname,
                   directory, exc, runs, ctype>>

NextClean == CleanFirst \/ CleanAgain

CleanSpec == InitClean /\ [][NextClean]_vars

\* the calls of clean_filename of utf8fix
InitUtf8Clean ==
    /\ cname \in CleanNames
    /\ mode \in Modes
    /\ cres = <<>>
    /\ pc = "uclean"
    /\ fs = <<>> /\ fs0 = <<>> /\ dry_run = FALSE /\ stack = <<>>
    /\ log = <<>> /\ processed = {} /\ last = NoStep
    /\ directory = "dir" /\ exc = "none" /\ runs = 0 /\ ctype = "str"

Utf8Clean ==
    /\ pc = "uclean" /\ cres = <<>>
    /\ cres' = <<utf8fix_clean_filename(cname, mode)>>
    /\ UNCHANGED <<fs, fs0, mode, dry_run, pc, stack, log, processed, last, cname,
                   directory, exc, runs, ctype>>

Utf8CleanSpec == InitUtf8Clean /\ [][Utf8Clean]_vars

\* the calls of clean_filename with any filename and any mode
InitCleanCall ==
    /\ ctype \in ArgTypes
    /\ cname \in (IF ctype = "str" THEN CleanNames ELSE {<<>>})
    /\ mode \in AnyModes
    /\ cres = <<>>
    /\ pc = "clean"
    /\ fs = <<>> /\ fs0 = <<>> /\ dry_run = FALSE /\ stack = <<>>
    /\ log = <<>> /\ processed = {} /\ last = NoStep
    /\ directory = "dir" /\ exc = "none" /\ runs = 0

\* clean_filename raises before it looks at the name
CleanRejects ==
    /\ pc = "clean" /\ cres = <<>>
    /\ CleanRaise(ctype, mode) # "none"
    /\ pc' = "raised"
    /\ exc' = CleanRaise(ctype, mode)
    /\ UNCHANGED <<fs, fs0, mode, dry_run, stack, log, processed, last, cname, cres,
                   directory, runs, ctype>>

NextCleanCall == CleanRejects \/ NextClean

CleanCallSpec == InitCleanCall /\ [][NextCleanCall]_vars

-----------------------------------------------------------------------------
(* Vocabulary of the properties *)

\* the records that report a failure
ErrorRecords ==
    {"Error renaming file", "Error renaming directory", "Failed to rename", "Error processing"}

\* a is b with some of its characters left out
RECURSIVE IsSubseq(_, _)
IsSubseq(a, b) ==
    IF a = <<>> THEN TRUE
    ELSE IF b = <<>> THEN FALSE
    ELSE IF Head(a) = Head(b) THEN IsSubseq(Tail(a), Tail(b))
    ELSE IsSubseq(a, Tail(b))

\* a occurs in b, as it is
Occurs(a, b) == \E i \in 0..(Len(b) - Len(a)) : SubSeq(b, i + 1, i + Len(a)) = a

NotControl(c) == ~IsControl(c)

\* the extension of a name: from its last dot, when a character other than a dot
\* precedes that dot
ExtOf(t) ==
    IF \E i \in 1..Len(t) : t[i] = Dot /\ \E j \in 1..(i - 1) : t[j] # Dot
    THEN LET d == CHOOSE i \in 1..Len(t) : t[i] = Dot /\ \A j \in (i + 1)..Len(t) : t[j] # Dot
         IN  SubSeq(t, d, Len(t))
    ELSE <<>>

\* what follows the last control character of a name
AfterControls(n) ==
    LET k == CHOOSE i \in 0..Len(n) :
                /\ i > 0 => IsControl(n[i])
                /\ \A j \in (i + 1)..Len(n) : ~IsControl(n[j])
    IN  SubSeq(n, k + 1, Len(n))

\* a name that the mode leaves as it is: without control characters and, in ascii
\* mode, of ASCII characters only
FixedPoint(n) ==
    \A i \in 1..Len(n) : ~IsControl(n[i]) /\ (mode = "ascii" => n[i] < AsciiLimit)

\* the ASCII text that stands for one character: the entry of the table for
\* ä Ä ö Ö ü Ü ß ẞ, the base letter of another accented letter, an ASCII
\* character itself, and nothing for the rest
Fold(c) ==
    CASE c = 228 -> <<97, 101>>    [] c = 196 -> <<65, 101>>
      [] c = 246 -> <<111, 101>>   [] c = 214 -> <<79, 101>>
      [] c = 252 -> <<117, 101>>   [] c = 220 -> <<85, 101>>
      [] c = 223 -> <<115, 115>>   [] c = 7838 -> <<83, 115>>
      [] c \in {224, 225} -> <<97>>
      [] c \in {232, 233} -> <<101>>
      [] c = 241 -> <<110>>
      [] c < AsciiLimit -> <<c>>
      [] OTHER -> <<>>

RECURSIVE FoldAll(_)
FoldAll(n) == IF n = <<>> THEN <<>> ELSE Fold(Head(n)) \o FoldAll(Tail(n))

\* a character with an ASCII text to stand for it
HasFallback(c) == Fold(c) # <<>>

\* the characters of the table
TableChars == {228, 196, 246, 214, 252, 220, 223, 7838}

\* the run of process_directory is over: it returned, or an exception left it
Ended == pc \in {"done", "raised"}

RealRunOver == ~dry_run /\ Ended

NameOf(p) == p[Len(p)]

Files0 == {p \in DOMAIN fs0 : fs0[p].kind = "file"}

Dirs0 == {p \in DOMAIN fs0 : fs0[p].kind = "dir"}

\* where the entries that started at path p are now
Where(p) == {q \in DOMAIN fs : fs[q].id = p}

Clean(n) == clean_filename(n, mode)

Unclean(n) == Clean(n) # n

\* the path p with every name of it cleaned
RECURSIVE CleanPath(_)
CleanPath(p) ==
    IF p = Root THEN Root ELSE Join(CleanPath(Parent(p)), Clean(NameOf(p)))

\* every directory above p has a clean name: no rename moves p from outside
StablePlace(p) == \A i \in 1..(Len(p) - 1) : ~Unclean(p[i])

\* n is name c, or c with a collision suffix
CleanOrSuffixed(n, c) ==
    \/ n = c
    \/ \E k \in 1..(Cardinality(DOMAIN fs0) + 1) :
          n = Suffixed(SplitExt(c)[1], SplitExt(c)[2], k)

-----------------------------------------------------------------------------
(* C1: over a real run of process_directory, merges included, no file that was
   there before the run is overwritten or removed: every file is still there,
   and there are as many files as before. *)
C1_NoFileLost ==
    (pc \in {"walk", "done", "raised"} /\ ~dry_run) =>
        /\ \A p \in Files0 : \E q \in Where(p) : fs[q].kind = "file"
        /\ Cardinality({q \in DOMAIN fs : fs[q].kind = "file"}) = Cardinality(Files0)

(* C2: when files of one directory clean to the same name, or a file cleans to
   the name of an entry that is already in the directory, then after a real run
   all of them are still there, side by side under distinct paths. *)
C2_CollidingFilesSurvive ==
    RealRunOver =>
        \A p \in Files0 : \A q \in DOMAIN fs0 :
            ( /\ p # q /\ Parent(p) = Parent(q)
              /\ Clean(NameOf(p)) = Clean(NameOf(q))
              /\ fs0[q].kind = "file" \/ NameOf(q) = Clean(NameOf(p)) )
            => \E pp \in Where(p) :
                  /\ fs[pp].kind = "file"
                  /\ fs0[q].kind = "file" =>
                        \E qq \in Where(q) : pp # qq /\ Parent(pp) = Parent(qq)

(* C3: a run of process_directory or of process_path with dry_run=True changes
   nothing in the tree, whatever the tree and the mode: the paths and their
   kinds stay as they were, and every log record is a 'Would rename ...'. *)
C3_DryRunNoMutation ==
    dry_run =>
        /\ fs = fs0
        /\ \A i \in 1..Len(log) :
              log[i].msg \in {"Would rename file", "Would rename directory"}

\* a dry run of process_path is over that would have renamed a file and a
\* directory
C3_Witness ==
    /\ dry_run /\ pc = "pdone"
    /\ \E i, j \in 1..Len(log) :
          /\ log[i].msg = "Would rename file"
          /\ log[j].msg = "Would rename directory"

(* C11: when a real run of process_directory has returned without a failure,
   every name in the tree is a fixed point of clean_filename for the mode, and
   a second run with the same mode changes nothing and logs nothing. *)
C11_RerunChangesNothing ==
    /\ (pc = "done" /\ ~dry_run /\ \A i \in 1..Len(log) : log[i].msg \notin ErrorRecords)
          => \A p \in DOMAIN fs : Clean(NameOf(p)) = NameOf(p)
    /\ runs > 0 => (fs = fs0 /\ log = <<>>)

\* a second run has returned, on a tree in which the first run renamed a file
\* with an empty cleaned name to '-1'
C11_Witness ==
    /\ runs = 1 /\ pc = "done"
    /\ \E p \in DOMAIN fs : NameOf(p) = <<Dash, Zero + 1>>

(* C12: process_directory raises TypeError when directory is None, and
   ValueError when it is '' or a path at which nothing is; the error comes
   before the traversal, with nothing changed and nothing logged. *)
C12_InvalidDirectoryRaises ==
    (pc # "called" /\ directory \in {"None", "empty", "missing"}) =>
        /\ pc = "raised"
        /\ exc = IF directory = "None" THEN "TypeError" ELSE "ValueError"
        /\ fs = fs0 /\ log = <<>> /\ stack = <<>> /\ processed = {}

\* the call with None has raised
C12_Witness == directory = "None" /\ pc = "raised" /\ exc = "TypeError"

(* C13: process_directory raises ValueError when directory exists and is not a
   directory. *)
C13_NotADirectoryRaises ==
    (pc # "called" /\ directory \in {"file", "exefile"}) =>
        pc = "raised" /\ exc = "ValueError"

(* C14: process_directory raises PermissionError when the caller may not read
   or traverse directory, before any entry is visited, renamed or logged. *)
C14_UnreadableRaises ==
    (pc # "called" /\ directory = "unreadable") =>
        /\ pc = "raised" /\ exc = "PermissionError"
        /\ fs = fs0 /\ log = <<>> /\ stack = <<>> /\ processed = {}

\* the call on an unreadable directory that is not empty has raised
C14_Witness ==
    directory = "unreadable" /\ pc = "raised" /\ exc = "PermissionError" /\ DOMAIN fs # {}

(* C15: with a mode other than 'preserve' and 'ascii', every call of
   process_directory on a directory ends with ValueError, the empty directory
   included, and nothing has been renamed. *)
C15_InvalidModeRaises ==
    (Ended /\ directory = "dir" /\ mode \notin Modes) =>
        pc = "raised" /\ exc = "ValueError" /\ fs = fs0

(* C16: every step of a real run that changes the tree logs it: each entry
   that the step leaves under another name, or in another directory, has a
   record of this step with its old path and its new path. *)
C16_EveryChangeLogged ==
    [][ (pc = "walk" /\ ~dry_run /\ fs' # fs) =>
            /\ Len(log') > Len(log)
            /\ \A p \in DOMAIN fs : \A q \in DOMAIN fs' :
                  ( /\ fs'[q].id = fs[p].id
                    /\ \/ NameOf(q) # NameOf(p)
                       \/ IdOf(fs', Parent(q)) # IdOf(fs, Parent(p)) )
                  => \E i \in (Len(log) + 1)..Len(log') :
                        log'[i].old = p /\ log'[i].new = q
      ]_vars

(* C17 as stated: in preserve mode a name without control characters comes back
   unchanged, and of a name with control characters every character that is
   not one is kept, in order. *)
C17_PreserveKeepsText ==
    (mode = "preserve" /\ Len(cres) >= 1) =>
        /\ ~HasControl(cname) => cres[1] = cname
        /\ IsSubseq(SelectSeq(cname, NotControl), cres[1])

(* C17 amended: in preserve mode a name without control characters comes back
   unchanged; a name with control characters comes back as 'filewithNull'
   followed by the extension of what follows its last control character, and
   as '' when nothing follows it. *)
C17_PreserveCollapses ==
    (mode = "preserve" /\ Len(cres) >= 1) =>
        cres[1] = IF ~HasControl(cname) THEN cname
                  ELSE IF AfterControls(cname) = <<>> THEN <<>>
                  ELSE Token \o ExtOf(AfterControls(cname))

\* a name with a control character came back as 'filewithNull.'
C17_Witness ==
    /\ mode = "preserve" /\ Len(cres) >= 1
    /\ HasControl(cname) /\ cres[1] = Token \o <<Dot>>

(* C18: a real run of process_directory over a tree in which every name is a
   fixed point of clean_filename for the mode changes nothing and logs
   nothing. *)
C18_CleanTreeUntouched ==
    (~dry_run /\ \A p \in DOMAIN fs0 : FixedPoint(NameOf(p))) =>
        fs = fs0 /\ log = <<>>

\* a real run in preserve mode has returned, over a tree with a directory and
\* with a name that is not ASCII
C18_Witness ==
    /\ pc = "done" /\ ~dry_run /\ mode = "preserve"
    /\ \A p \in DOMAIN fs0 : FixedPoint(NameOf(p))
    /\ \E p \in Dirs0 : \E q \in Files0 : Parent(q) = p /\ \E i \in 1..Len(NameOf(q)) : NameOf(q)[i] >= AsciiLimit

(* C19: in ascii mode clean_filename returns code points below 128 only; a
   character that has no ASCII fallback is deleted: the name gives what it
   gives without that character. *)
C19_AsciiOutput ==
    (mode = "ascii" /\ Len(cres) >= 1) =>
        /\ \A i \in 1..Len(cres[1]) : cres[1][i] < 128
        /\ ~HasControl(cname) =>
              cres[1] = clean_filename(SelectSeq(cname, HasFallback), "ascii")

\* a name with '日' and another character came back without '日'
C19_Witness ==
    /\ mode = "ascii" /\ Len(cres) >= 1
    /\ \E i \in 1..Len(cname) : cname[i] = 26085
    /\ cres[1] # <<>>

(* C20 as stated: in ascii mode every ä Ä ö Ö ü Ü ß ẞ of a name comes back as
   its table entry. *)
C20_UmlautsReplaced ==
    (mode = "ascii" /\ Len(cres) >= 1) =>
        \A i \in 1..Len(cname) : cname[i] \in TableChars => Occurs(Fold(cname[i]), cres[1])

(* C20 amended: in ascii mode a name without control characters comes back
   character by character: ä Ä ö Ö ü Ü ß ẞ as the table entry, another
   accented letter as its base letter, an ASCII character as itself. *)
C20_UmlautsBeforeAccents ==
    (mode = "ascii" /\ Len(cres) >= 1 /\ ~HasControl(cname)) =>
        cres[1] = FoldAll(cname)

\* 'ü', 'é' and 'ẞ' came back as 'ueeSs'
C20_Witness ==
    /\ mode = "ascii" /\ Len(cres) >= 1
    /\ cname = <<252, 233, 7838>>
    /\ cres[1] = <<117, 101, 101, 83, 115>>

(* C21: in preserve mode a name with one or more runs of control characters
   and a non-empty text after the last of them comes back as 'filewithNull'
   followed by the extension of that text, and the result has no control
   character in it. *)
C21_TokenAndLastExtension ==
    (mode = "preserve" /\ Len(cres) >= 1 /\ HasControl(cname)
        /\ AfterControls(cname) # <<>>) =>
            /\ cres[1] = Token \o ExtOf(AfterControls(cname))
            /\ ~HasControl(cres[1])

\* a name with two separate runs of control characters came back as the token
\* and the extension of its last segment
C21_Witness ==
    /\ mode = "preserve" /\ Len(cres) >= 1
    /\ \E i, j \in 1..Len(cname) :
          /\ i + 1 < j /\ IsControl(cname[i]) /\ IsControl(cname[j])
          /\ \E k \in (i + 1)..(j - 1) : ~IsControl(cname[k])
    /\ AfterControls(cname) # <<>>
    /\ cres[1] = Token \o ExtOf(AfterControls(cname))

(* C22: the result for a name with a control character is never empty, and it
   is exactly 'filewithNull' when nothing follows the last control character
   of the name. *)
C22_NeverEmpty ==
    (Len(cres) >= 1 /\ HasControl(cname)) =>
        /\ cres[1] # <<>>
        /\ AfterControls(cname) = <<>> => cres[1] = Token

(* C23: clean_filename raises TypeError for a filename that is not a string,
   whatever the mode, and ValueError for a string filename with a mode other
   than 'preserve' and 'ascii'; for a string filename and one of the two modes
   it returns a name and raises nothing. *)
C23_RaisesOnBadArguments ==
    [][ (pc = "clean" /\ cres = <<>>) =>
            IF ctype # "str" THEN pc' = "raised" /\ exc' = "TypeError"
            ELSE IF mode \notin Modes THEN pc' = "raised" /\ exc' = "ValueError"
            ELSE pc' = "clean" /\ Len(cres') = 1 /\ exc' = "none"
      ]_vars

\* a call with None as filename and an unknown mode has raised TypeError
C23_Witness ==
    pc = "raised" /\ ctype = "NoneType" /\ mode \notin Modes /\ exc = "TypeError"

(* C24: every run of main that returns has 'Processing completed.' as its last
   log record, also the run on a directory that does not exist. *)
C24_AlwaysCompleted ==
    pc = "returned" => (log # <<>> /\ log[Len(log)].msg = "Processing completed.")

(* C25: process_directory of src/unifile/unifile.py, run for real in ascii mode
   over a tree with an entry whose name is not ASCII, raises nothing and,
   once it has returned, has left no name that is not ASCII. *)
C25_SrcAsciiRunReturns ==
    (mode = "ascii" /\ ~dry_run
        /\ \E p \in DOMAIN fs0 : \E i \in 1..Len(NameOf(p)) : ~IsAscii(NameOf(p)[i]))
    => /\ pc # "raised"
       /\ pc = "done" =>
             \A p \in DOMAIN fs : \A i \in 1..Len(NameOf(p)) : IsAscii(NameOf(p)[i])

(* C26: the result of clean_filename of utf8fix has no control character in
   it, also for a name with two or more separate runs of them. *)
C26_Utf8fixNoControl ==
    (pc = "uclean" /\ Len(cres) >= 1) => ~HasControl(cres[1])

(* C28: a real run of process_directory of utf8fix loses no file: of two files
   of a directory whose names clean to the same name, and of a file whose
   name cleans to the name of a file that is there, both are in the tree
   when the run has returned. *)
C28_Utf8fixFilesSurvive ==
    (pc = "udone" /\ ~dry_run) => \A p \in Files0 : Where(p) # {}

(* C27: in a run of main the traversal of process_path is bottom-up: when a
   directory is renamed or merged, every entry beneath it, at any depth, has
   been visited before. *)
C27_CliBottomUp ==
    [][ (pc = "rglob" /\ last'.kind = "dir" /\ last'.op \in {"rename", "merge"}) =>
            \A q \in DOMAIN fs :
                (IsPrefix(last'.old, q) /\ q # last'.old) => fs[q].id \in processed
      ]_vars

(* C29: after a real run of process_directory every file lies as deep below
   the root as it did before: no directory is dissolved into its parent and no
   merge nests a directory inside its namesake. *)
C29_DepthUnchanged ==
    (pc = "done" /\ ~dry_run) =>
        \A p \in Files0 : \A q \in Where(p) : Len(q) = Len(p)

(* C30: the directory loop merges a directory only into a directory: when a
   regular file has the cleaned name, the source directory stays, also when
   it is empty, and the walk goes on. *)
C30_MergeOnlyIntoDirectory ==
    [][ (last'.kind = "dir" /\ last'.op \in {"merge", "raise"} /\ IsFile(fs, last'.new)) =>
            /\ last'.op # "merge"
            /\ IsDir(fs', last'.old)
            /\ pc' # "raised"
      ]_vars

(* C4: the traversal is bottom-up: when the directory loop handles a directory,
   every entry beneath it, at any depth, has been handled before. *)
C4_BottomUp ==
    [][ last'.kind = "dir" =>
            \A q \in DOMAIN fs :
                (IsPrefix(last'.old, q) /\ q # last'.old) => fs[q].id \in processed
      ]_vars

\* a directory is renamed whose entry, beneath it, was renamed before
C4_Witness ==
    /\ last.op = "rename" /\ last.kind = "dir"
    /\ \E q \in DOMAIN fs :
          /\ Parent(q) = last.new
          /\ fs[q].id \in processed
          /\ NameOf(fs[q].id) # NameOf(q)

(* C5: after a real run, a file that lay in a directory whose name needed
   cleaning is in the directory's cleaned path, under its own cleaned name (or
   that name with a collision suffix), and the directory's old path is gone. *)
C5_FileFollowsDirectory ==
    RealRunOver =>
        \A p \in Files0 : \A i \in 1..(Len(p) - 1) :
            (Unclean(p[i]) /\ StablePlace(SubSeq(p, 1, i))) =>
                /\ ~Exists(fs, SubSeq(p, 1, i))
                /\ \E q \in Where(p) :
                      /\ Parent(q) = CleanPath(Parent(p))
                      /\ CleanOrSuffixed(NameOf(q), Clean(NameOf(p)))

(* C6: when the cleaned name of directory S is the name of a sibling directory
   T, then after a real run T is a directory, S is gone, and every entry that
   was directly in S or in T is directly in T (a directory among them may have
   been merged into its namesake there). *)
C6_MergeIsUnion ==
    RealRunOver =>
        \A S \in Dirs0 : \A T \in Dirs0 :
            ( /\ Parent(S) = Parent(T) /\ StablePlace(S)
              /\ Unclean(NameOf(S)) /\ Clean(NameOf(S)) = NameOf(T) )
            => /\ IsDir(fs, T)
               /\ ~Exists(fs, S)
               /\ \A c \in DOMAIN fs0 :
                     Parent(c) \in {S, T} =>
                        \/ \E q \in Where(c) : Parent(q) = T /\ fs[q].kind = fs0[c].kind
                        \/ /\ fs0[c].kind = "dir"
                           /\ IsDir(fs, Join(T, Clean(NameOf(c))))

(* C7: the merge applies the collision rule at every depth: after a merge no
   file is overwritten or left behind, no entry is there twice, and no entry
   lies deeper than it did (nested in its namesake). *)
C7_MergeIsRecursive ==
    last.op = "merge" =>
        /\ \A p \in Files0 : \E q \in Where(p) : fs[q].kind = "file"
        /\ \A p \in DOMAIN fs0 : Cardinality(Where(p)) <= 1
        /\ \A q \in DOMAIN fs : Len(q) <= Len(fs[q].id)
        /\ ~Exists(fs, last.old)

(* C8: an error raised while an entry is processed never leaves
   process_directory. *)
C8_NoErrorPropagates == pc # "raised"

(* C9: a file whose cleaned target is free gets exactly the cleaned name; when
   the target is taken it gets '{base}-{n}{ext}' for the smallest n >= 1 whose
   path is free in the directory at the moment of the rename. *)
C9_SmallestFreeSuffix ==
    [][ (last'.op = "rename" /\ last'.kind = "file") =>
            LET dir == Parent(last'.old)
                c == Clean(NameOf(last'.old))
                base == SplitExt(c)[1]
                ext == SplitExt(c)[2]
                At(n) == Append(dir, base \o <<Dash>> \o Digits(n) \o ext)
            IN  /\ fs'[last'.new].id = fs[last'.old].id
                /\ ~Exists(fs, last'.new)
                /\ IF ~Exists(fs, Join(dir, c)) THEN last'.new = Join(dir, c)
                   ELSE \E n \in 1..(Cardinality(DOMAIN fs) + 1) :
                           /\ last'.new = At(n)
                           /\ \A m \in 1..(n - 1) : Exists(fs, At(m))
      ]_vars

\* a file was renamed to 'e-2.t': 'e.t' and 'e-1.t' were taken
C9_Witness ==
    /\ last.op = "rename" /\ last.kind = "file"
    /\ NameOf(last.new) = <<101, Dash, Zero + 2, Dot, 116>>

(* C10: clean_filename is idempotent: cleaning a cleaned name, in the same mode,
   changes nothing. *)
C10_Idempotent == Len(cres) = 2 => cres[2] = cres[1]

\* a name that cleaning changed has been cleaned twice
C10_Witness == Len(cres) = 2 /\ cres[1] # cname /\ cres[1] # <<>>

=============================================================================
